---- MODULE Spec2Model ----
(***************************************************************************)
(* Model of package sqlite_base (db.go): InitDB, IsDBExists, InitSchema,   *)
(* validateSchema and tableExists, over a database file whose tables map   *)
(* column names to declared type strings.                                  *)
(***************************************************************************)
EXTENDS Integers, Sequences, FiniteSets, TLC

\* ------------------------------------------------------------------ bounds

\* Number of column names validateSchema is called with.
MaxCols == 2
\* Number of InitSchema calls one process makes.
MaxRuns == 2

\* Table names of the caller's maps and of the file.
Tables == {"users", "posts"}
\* Column names, in the order a statement declares them.
ColName == <<"id", "name", "email", "age">>
\* Declared type strings.
Types == {"INTEGER", "TEXT"}

\* The column names of the validateSchema specifications.
ValidateCols == {ColName[i] : i \in 1..MaxCols}
\* The column names of the start-up specifications.
SchemaCols == {"id"}

\* Column definitions over the names C: column name -> declared type string.
ColMaps(C) == UNION {[D -> Types] : D \in SUBSET C}
\* A table has at least one column.
TableCols(C) == {m \in ColMaps(C) : DOMAIN m # {}}

\* Partial maps from table names into a set V.
PartialMaps(V) == UNION {[D -> V] : D \in SUBSET Tables}

EmptyMap == [x \in {} |-> x]

\* ------------------------------------------------------------ SQL statements

\* A creation statement "CREATE TABLE name (col type, ...)".
Stmt(t, cols) == [name |-> t, cols |-> cols]

\* ------------------------------------------------------------------ errors

NoErr == <<>>
ErrCheckExists(t) == <<"error checking if table exists", t>>
ErrTableMissing(t) == <<"table does not exist in the database", t>>
ErrQuery(t) == <<"error querying table info", t>>
ErrScan == <<"error scanning table info row">>
ErrMissingColumn(c) == <<"missing expected column", c>>
ErrUnexpectedType(c, expected, got) == <<"column has unexpected type", c, expected, got>>
ErrExec(t) == <<"Error creating table", t>>

\* Injected failures of the database calls validateSchema makes:
\* get - the catalog query fails; query - the PRAGMA query fails;
\* scanAt - the row whose Scan fails (0: none); close - rows.Close fails.
NoFault == [get |-> FALSE, query |-> FALSE, scanAt |-> 0, close |-> FALSE]
Faults(n) == [get : BOOLEAN, query : BOOLEAN, scanAt : 0..n, close : BOOLEAN]

\* ------------------------------------------------------------ the database

\* SELECT count(*) FROM sqlite_master WHERE type='table' AND name=?
CatalogCount(db, tableName) == Cardinality({t \in DOMAIN db : t = tableName})

\* PRAGMA table_info(t): one row per column, in declaration order; no row
\* for a name that is not a table.
RECURSIVE RowsFrom(_, _)
RowsFrom(cols, i) ==
    IF i > Len(ColName) THEN <<>>
    ELSE IF ColName[i] \in DOMAIN cols
         THEN <<[name |-> ColName[i], type |-> cols[ColName[i]]]>> \o RowsFrom(cols, i + 1)
         ELSE RowsFrom(cols, i + 1)
TableInfo(db, tableName) ==
    IF tableName \in DOMAIN db THEN RowsFrom(db[tableName], 1) ELSE <<>>

\* db.Exec of a creation statement: fails when the table already exists or
\* the call fails, otherwise adds the table.
ExecResult(db, stmt, fails) ==
    IF fails \/ stmt.name \in DOMAIN db
    THEN [err |-> ErrExec(stmt.name), db |-> db]
    ELSE [err |-> NoErr,
          db |-> [t \in DOMAIN db \cup {stmt.name} |->
                     IF t = stmt.name THEN stmt.cols ELSE db[t]]]

\* ------------------------------------------------------------ tableExists

\* Mutant: the count is compared with >= 0, so every name passes.
tableExistsAlways(db, tableName, fails) ==
    IF fails
    THEN [exists |-> FALSE, err |-> ErrCheckExists(tableName)]
    ELSE [exists |-> CatalogCount(db, tableName) >= 0, err |-> NoErr]

tableExists(db, tableName, fails) ==
    IF fails
    THEN [exists |-> FALSE, err |-> ErrCheckExists(tableName)]
    ELSE [exists |-> CatalogCount(db, tableName) > 0, err |-> NoErr]

\* --------------------------------------------------------- validateSchema

\* The loop over rows.Next(): foundColumns[name] = columnType for each row,
\* returning at the first row whose Scan fails.
RECURSIVE ScanRows(_, _, _, _)
ScanRows(rows, i, found, scanAt) ==
    IF i > Len(rows) THEN [err |-> NoErr, found |-> found]
    ELSE IF i = scanAt THEN [err |-> ErrScan, found |-> found]
    ELSE ScanRows(rows, i + 1,
                  [c \in DOMAIN found \cup {rows[i].name} |->
                      IF c = rows[i].name THEN rows[i].type ELSE found[c]],
                  scanAt)

\* Mutant: the type comparison is inverted.
CheckColumnInverted(colName, expectedType, found) ==
    IF colName \notin DOMAIN found THEN ErrMissingColumn(colName)
    ELSE IF found[colName] = expectedType
         THEN ErrUnexpectedType(colName, expectedType, found[colName])
         ELSE NoErr

\* Mutant: an expected column the table lacks is passed over.
CheckColumnSkipsAbsent(colName, expectedType, found) ==
    IF colName \notin DOMAIN found THEN NoErr
    ELSE IF found[colName] # expectedType
         THEN ErrUnexpectedType(colName, expectedType, found[colName])
         ELSE NoErr

\* One iteration of the loop over expectedColumns.
CheckColumn(colName, expectedType, found) ==
    IF colName \notin DOMAIN found THEN ErrMissingColumn(colName)
    ELSE IF found[colName] # expectedType
         THEN ErrUnexpectedType(colName, expectedType, found[colName])
         ELSE NoErr

\* The loop over expectedColumns, in the iteration order `order` (Go ranges
\* over a map in an unspecified order), returning at the first failure.
RECURSIVE CheckColumns(_, _, _, _)
CheckColumns(order, i, expectedColumns, found) ==
    IF i > Len(order) THEN NoErr
    ELSE LET e == CheckColumn(order[i], expectedColumns[order[i]], found)
         IN IF e # NoErr THEN e
            ELSE CheckColumns(order, i + 1, expectedColumns, found)

\* Mutant: columns of the table that are not expected are reported.
ValidateRowsStrict(rows, expectedColumns, order, flt) ==
    LET sc == ScanRows(rows, 1, EmptyMap, flt.scanAt)
        extra == DOMAIN sc.found \ DOMAIN expectedColumns
    IN IF sc.err # NoErr
       THEN [ret |-> sc.err, found |-> sc.found]
       ELSE IF CheckColumns(order, 1, expectedColumns, sc.found) = NoErr /\ extra # {}
       THEN [ret |-> <<"unexpected column", CHOOSE c \in extra : TRUE>>,
             found |-> sc.found]
       ELSE [ret |-> CheckColumns(order, 1, expectedColumns, sc.found),
             found |-> sc.found]

\* The body of validateSchema after Queryx succeeded, up to its return
\* statement: ret is the returned error.
ValidateRows(rows, expectedColumns, order, flt) ==
    LET sc == ScanRows(rows, 1, EmptyMap, flt.scanAt)
    IN IF sc.err # NoErr
       THEN [ret |-> sc.err, found |-> sc.found]
       ELSE [ret |-> CheckColumns(order, 1, expectedColumns, sc.found),
             found |-> sc.found]

\* Mutant: rows.Close() is called at the end of the function instead of
\* being deferred, so an error return leaves the cursor open.
CloseOnSuccessOnly(ret, closeFails) ==
    [err |-> ret, closed |-> IF ret = NoErr THEN 1 ELSE 0,
     logged |-> ret = NoErr /\ closeFails]

\* The deferred function: rows.Close() runs after the return value is set;
\* its error is assigned to the local err and logged, the result is kept.
DeferredClose(ret, closeFails) ==
    [err |-> ret, closed |-> 1, logged |-> closeFails]

validateSchema(db, tableName, expectedColumns, order, flt) ==
    LET te == tableExists(db, tableName, flt.get)
    IN IF te.err # NoErr
       THEN [err |-> te.err, opened |-> 0, closed |-> 0, logged |-> FALSE,
             found |-> EmptyMap]
       ELSE IF ~te.exists
       THEN [err |-> ErrTableMissing(tableName), opened |-> 0, closed |-> 0,
             logged |-> FALSE, found |-> EmptyMap]
       ELSE IF flt.query
       THEN [err |-> ErrQuery(tableName), opened |-> 0, closed |-> 0,
             logged |-> FALSE, found |-> EmptyMap]
       ELSE LET body == ValidateRows(TableInfo(db, tableName), expectedColumns,
                                     order, flt)
                d == DeferredClose(body.ret, flt.close)
            IN [err |-> d.err, opened |-> 1, closed |-> d.closed,
                logged |-> d.logged, found |-> body.found]

\* The iteration orders of a map with key set D.
Orders(D) ==
    {s \in [1..Cardinality(D) -> D] : \A i, j \in DOMAIN s : i # j => s[i] # s[j]}

\* ------------------------------------------------------------------ state

VARIABLES
    fileExists,          \* whether the database file is on the filesystem
    db,                  \* the file's tables: table name -> (column -> type)
    connOpen,            \* InitDB returned a connection handle
    pool,                \* the handle's pool settings
    probed,              \* result of IsDBExists: "none", "yes" or "no"
    probedAfterOpen,     \* IsDBExists ran after InitDB
    fresh,               \* no file existed at the path when the process started
    tableSchemas,        \* the caller's schema map: table name -> statement
    allExpectedColumns,  \* the caller's expected-columns map
    pc,                  \* "idle", "loop" (inside InitSchema) or "fatal"
    dbExists,            \* the dbExists argument of the current InitSchema call
    remaining,           \* keys of tableSchemas the range loop has not visited
    executed,            \* table name -> number of Exec calls of its statement
    validated,           \* tables validateSchema returned nil for, this call
    skipped,             \* tables skipped for want of expected columns
    failedAt,            \* the table whose iteration called log.Fatal, or ""
    last,                \* the last validateSchema call and its result
    openCursors,         \* result cursors opened and not yet closed
    runs                 \* the InitSchema calls made so far

vars == <<fileExists, db, connOpen, pool, probed, probedAfterOpen, fresh,
          tableSchemas, allExpectedColumns, pc, dbExists, remaining, executed,
          validated, skipped, failedAt, last, openCursors, runs>>

inputs == <<tableSchemas, allExpectedColumns, fresh>>
loopVars == <<dbExists, remaining, executed, validated, skipped, failedAt, runs>>
fileVars == <<fileExists, db>>
connVars == <<connOpen, pool>>
probeVars == <<probed, probedAfterOpen>>
callVars == <<last, openCursors>>

NoPool == [maxOpen |-> 0, maxIdle |-> 0, maxLifetimeMin |-> 0, maxIdleTimeMin |-> 0]
NoCall == [called |-> FALSE, table |-> "", expected |-> EmptyMap, order |-> <<>>,
           flt |-> NoFault, err |-> NoErr, opened |-> 0, closed |-> 0,
           logged |-> FALSE, found |-> EmptyMap]

\* The record kept of a validateSchema call.
CallRecord(tableName, expectedColumns, order, flt, r) ==
    [called |-> TRUE, table |-> tableName, expected |-> expectedColumns,
     order |-> order, flt |-> flt, err |-> r.err, opened |-> r.opened, closed |-> r.closed,
     logged |-> r.logged, found |-> r.found]

\* Schema maps: each key maps to the creation statement of that table.
SchemaMaps(C) ==
    {[t \in DOMAIN m |-> Stmt(t, m[t])] : m \in PartialMaps(TableCols(C))}
ExpectedMaps(C) == PartialMaps(ColMaps(C))
\* Contents of a database file.
Databases(C) == PartialMaps(TableCols(C))

\* ------------------------------------------------------------------- Init

InitWith(schemas, expected, files, open) ==
    /\ tableSchemas \in schemas
    /\ allExpectedColumns \in expected
    /\ fileExists \in files
    /\ fresh = ~fileExists
    /\ connOpen = open
    /\ pool = NoPool
    /\ probed = "none"
    /\ probedAfterOpen = FALSE
    /\ pc = "idle"
    /\ dbExists = FALSE
    /\ remaining = {}
    /\ executed = [t \in Tables |-> 0]
    /\ validated = {}
    /\ skipped = {}
    /\ failedAt = ""
    /\ last = NoCall
    /\ openCursors = 0
    /\ runs = <<>>

\* A process about to start: the file is absent, or present with any tables.
Init ==
    /\ InitWith(SchemaMaps(SchemaCols), ExpectedMaps(SchemaCols), BOOLEAN, FALSE)
    /\ db \in IF fileExists THEN Databases(SchemaCols) ELSE {EmptyMap}

\* ------------------------------------------------------------------ InitDB

\* Mutant: the handle is opened lazily (no ping), so no file is created.
InitDBLazy(fails) ==
    /\ pc = "idle"
    /\ ~connOpen
    /\ IF fails
       THEN /\ pc' = "fatal"
            /\ UNCHANGED <<fileVars, connVars>>
       ELSE /\ connOpen' = TRUE
            /\ pool' = [maxOpen |-> 5, maxIdle |-> 5, maxLifetimeMin |-> 5,
                        maxIdleTimeMin |-> 1]
            /\ UNCHANGED <<fileVars, pc>>
    /\ UNCHANGED <<probeVars, inputs, loopVars, callVars>>

\* sqlx.Connect opens and pings the file, which creates it when absent.
InitDB(fails) ==
    /\ pc = "idle"
    /\ ~connOpen
    /\ IF fails
       THEN /\ pc' = "fatal"
            /\ UNCHANGED <<fileVars, connVars>>
       ELSE /\ connOpen' = TRUE
            /\ fileExists' = TRUE
            /\ pool' = [maxOpen |-> 5, maxIdle |-> 5, maxLifetimeMin |-> 5,
                        maxIdleTimeMin |-> 1]
            /\ UNCHANGED <<db, pc>>
    /\ UNCHANGED <<probeVars, inputs, loopVars, callVars>>

\* -------------------------------------------------------------- IsDBExists

IsDBExists(fails) ==
    /\ pc = "idle"
    /\ probed = "none"
    /\ IF ~fileExists
       THEN /\ probed' = "no"
            /\ probedAfterOpen' = connOpen
            /\ pc' = pc
       ELSE IF fails
       THEN /\ pc' = "fatal"
            /\ UNCHANGED probeVars
       ELSE /\ probed' = "yes"
            /\ probedAfterOpen' = connOpen
            /\ pc' = pc
    /\ UNCHANGED <<fileVars, connVars, inputs, loopVars, callVars>>

\* -------------------------------------------------------------- InitSchema

\* Entry: the range loop over tableSchemas starts.
InitSchema(exists) ==
    /\ pc = "idle"
    /\ connOpen
    /\ Len(runs) < MaxRuns
    /\ pc' = "loop"
    /\ dbExists' = exists
    /\ remaining' = DOMAIN tableSchemas
    /\ executed' = [t \in Tables |-> 0]
    /\ validated' = {}
    /\ skipped' = {}
    /\ failedAt' = ""
    /\ runs' = Append(runs, [dbExists |-> exists, dbAtStart |-> db,
                              outcome |-> "running"])
    /\ UNCHANGED <<fileVars, connVars, probeVars, inputs, callVars>>

SetOutcome(o) == [runs EXCEPT ![Len(runs)].outcome = o]

\* Mutant: the loop is left after the first table is created.
CreateTableThenBreak(tableName, fails) ==
    /\ pc = "loop"
    /\ tableName \in remaining
    /\ ~dbExists
    /\ LET r == ExecResult(db, tableSchemas[tableName], fails)
       IN /\ executed' = [executed EXCEPT ![tableName] = @ + 1]
          /\ db' = r.db
          /\ IF r.err # NoErr
             THEN /\ pc' = "fatal"
                  /\ failedAt' = tableName
                  /\ runs' = SetOutcome("fatal")
                  /\ UNCHANGED remaining
             ELSE /\ remaining' = {}
                  /\ UNCHANGED <<pc, failedAt, runs>>
    /\ UNCHANGED <<fileExists, connVars, probeVars, inputs, dbExists, validated,
                   skipped, callVars>>

\* Mutant: a failed statement rolls back the tables created before it.
CreateTableRollback(tableName, fails) ==
    /\ pc = "loop"
    /\ tableName \in remaining
    /\ ~dbExists
    /\ LET r == ExecResult(db, tableSchemas[tableName], fails)
       IN /\ executed' = [executed EXCEPT ![tableName] = @ + 1]
          /\ IF r.err # NoErr
             THEN /\ pc' = "fatal"
                  /\ failedAt' = tableName
                  /\ runs' = SetOutcome("fatal")
                  /\ db' = runs[Len(runs)].dbAtStart
                  /\ UNCHANGED remaining
             ELSE /\ remaining' = remaining \ {tableName}
                  /\ db' = r.db
                  /\ UNCHANGED <<pc, failedAt, runs>>
    /\ UNCHANGED <<fileExists, connVars, probeVars, inputs, dbExists, validated,
                   skipped, callVars>>

\* One iteration with dbExists = false: execute the creation statement.
CreateTable(tableName, fails) ==
    /\ pc = "loop"
    /\ tableName \in remaining
    /\ ~dbExists
    /\ LET r == ExecResult(db, tableSchemas[tableName], fails)
       IN /\ executed' = [executed EXCEPT ![tableName] = @ + 1]
          /\ db' = r.db
          /\ IF r.err # NoErr
             THEN /\ pc' = "fatal"
                  /\ failedAt' = tableName
                  /\ runs' = SetOutcome("fatal")
                  /\ UNCHANGED remaining
             ELSE /\ remaining' = remaining \ {tableName}
                  /\ UNCHANGED <<pc, failedAt, runs>>
    /\ UNCHANGED <<fileExists, connVars, probeVars, inputs, dbExists, validated,
                   skipped, callVars>>

\* Mutant: a table without expected columns aborts the call.
SkipTableFatal(tableName) ==
    /\ pc = "loop"
    /\ tableName \in remaining
    /\ dbExists
    /\ tableName \notin DOMAIN allExpectedColumns
    /\ pc' = "fatal"
    /\ failedAt' = tableName
    /\ runs' = SetOutcome("fatal")
    /\ UNCHANGED <<fileVars, connVars, probeVars, inputs, dbExists, remaining,
                   executed, validated, skipped, callVars>>

\* One iteration with dbExists = true and no expected columns: continue.
SkipTable(tableName) ==
    /\ pc = "loop"
    /\ tableName \in remaining
    /\ dbExists
    /\ tableName \notin DOMAIN allExpectedColumns
    /\ skipped' = skipped \cup {tableName}
    /\ remaining' = remaining \ {tableName}
    /\ UNCHANGED <<fileVars, connVars, probeVars, inputs, pc, dbExists, executed,
                   validated, failedAt, runs, callVars>>

\* Mutant: a validation error is logged without ending the process.
ValidateTableLogsOnly(tableName, flt) ==
    /\ pc = "loop"
    /\ tableName \in remaining
    /\ dbExists
    /\ tableName \in DOMAIN allExpectedColumns
    /\ \E order \in Orders(DOMAIN allExpectedColumns[tableName]) :
         LET expectedCols == allExpectedColumns[tableName]
             r == validateSchema(db, tableName, expectedCols, order, flt)
         IN /\ last' = CallRecord(tableName, expectedCols, order, flt, r)
            /\ openCursors' = openCursors + r.opened - r.closed
            /\ remaining' = remaining \ {tableName}
            /\ validated' = validated \cup {tableName}
            /\ UNCHANGED <<pc, failedAt, runs>>
    /\ UNCHANGED <<fileVars, connVars, probeVars, inputs, dbExists, executed,
                   skipped>>

\* One iteration with dbExists = true and expected columns: validate.
ValidateTable(tableName, flt) ==
    /\ pc = "loop"
    /\ tableName \in remaining
    /\ dbExists
    /\ tableName \in DOMAIN allExpectedColumns
    /\ \E order \in Orders(DOMAIN allExpectedColumns[tableName]) :
         LET expectedCols == allExpectedColumns[tableName]
             r == validateSchema(db, tableName, expectedCols, order, flt)
         IN /\ last' = CallRecord(tableName, expectedCols, order, flt, r)
            /\ openCursors' = openCursors + r.opened - r.closed
            /\ IF r.err # NoErr
               THEN /\ pc' = "fatal"
                    /\ failedAt' = tableName
                    /\ runs' = SetOutcome("fatal")
                    /\ UNCHANGED <<remaining, validated>>
               ELSE /\ remaining' = remaining \ {tableName}
                    /\ validated' = validated \cup {tableName}
                    /\ UNCHANGED <<pc, failedAt, runs>>
    /\ UNCHANGED <<fileVars, connVars, probeVars, inputs, dbExists, executed,
                   skipped>>

\* The loop ends: "All tables processed successfully." and return.
Finish ==
    /\ pc = "loop"
    /\ remaining = {}
    /\ pc' = "idle"
    /\ runs' = SetOutcome("done")
    /\ UNCHANGED <<fileVars, connVars, probeVars, inputs, dbExists, remaining,
                   executed, validated, skipped, failedAt, callVars>>

\* ------------------------------------------------- validateSchema, called

\* A direct call of validateSchema on an open connection.
CallValidateSchema(tableName, expectedColumns, flt) ==
    /\ pc = "idle"
    /\ connOpen
    /\ ~last.called
    /\ \E order \in Orders(DOMAIN expectedColumns) :
         LET r == validateSchema(db, tableName, expectedColumns, order, flt)
         IN /\ last' = CallRecord(tableName, expectedColumns, order, flt, r)
            /\ openCursors' = openCursors + r.opened - r.closed
    /\ UNCHANGED <<fileVars, connVars, probeVars, inputs, pc, loopVars>>

\* --------------------------------------------------------- specifications

\* Start-up of a process against a database whose calls succeed.
Next ==
    \/ InitDB(FALSE)
    \/ IsDBExists(FALSE)
    \/ \E b \in BOOLEAN : InitSchema(b)
    \/ \E t \in Tables : CreateTable(t, FALSE)
    \/ \E t \in Tables : SkipTable(t)
    \/ \E t \in Tables : ValidateTable(t, NoFault)
    \/ Finish

Spec == Init /\ [][Next]_vars

\* Start-up of a process against a database whose calls may fail.
NextFault ==
    \/ \E f \in BOOLEAN : InitDB(f)
    \/ \E f \in BOOLEAN : IsDBExists(f)
    \/ \E b \in BOOLEAN : InitSchema(b)
    \/ \E t \in Tables, f \in BOOLEAN : CreateTable(t, f)
    \/ \E t \in Tables : SkipTable(t)
    \/ \E t \in Tables, flt \in Faults(Cardinality(SchemaCols)) : ValidateTable(t, flt)
    \/ Finish

SpecFault == Init /\ [][NextFault]_vars

\* A process holding an open connection to a file that is empty or holds the
\* table "users" with any columns, calling validateSchema with any table name
\* and any expected columns.
InitValidate ==
    /\ InitWith({EmptyMap}, {EmptyMap}, {TRUE}, TRUE)
    /\ db \in {d \in Databases(ValidateCols) : DOMAIN d \subseteq {"users"}}

NextValidate ==
    \E t \in Tables, e \in ColMaps(ValidateCols) : CallValidateSchema(t, e, NoFault)

SpecValidate == InitValidate /\ [][NextValidate]_vars

NextValidateFault ==
    \E t \in Tables, e \in ColMaps(ValidateCols), flt \in Faults(MaxCols) :
        CallValidateSchema(t, e, flt)

SpecValidateFault == InitValidate /\ [][NextValidateFault]_vars

\* ------------------------------------------------------------------ claims

\* The current (or latest) InitSchema call.
Run == runs[Len(runs)]
InRun == Len(runs) > 0
SchemaTables == DOMAIN tableSchemas
\* Tables of the schema map without an expected-columns entry.
NoExpected == SchemaTables \ DOMAIN allExpectedColumns
\* Tables the loop has visited without aborting.
Processed == SchemaTables \ remaining

\* C1: InitSchema with dbExists = false on a database holding none of the
\* schema map's tables never aborts, executes no statement twice, and when it
\* completes it has executed every entry's statement exactly once and
\* tableExists reports every table of the schema map.
C1_CreateAll ==
    (InRun /\ ~Run.dbExists /\ SchemaTables \cap DOMAIN Run.dbAtStart = {}) =>
        /\ Run.outcome # "fatal"
        /\ \A t \in Tables : executed[t] <= 1
        /\ \A t \in Processed : executed[t] = 1
        /\ Run.outcome = "done" =>
              /\ \A t \in SchemaTables :
                    /\ executed[t] = 1
                    /\ tableExists(db, t, FALSE) = [exists |-> TRUE, err |-> NoErr]
              /\ \A t \in Tables \ SchemaTables : executed[t] = 0

C1_Witness ==
    /\ InRun /\ ~Run.dbExists /\ Run.outcome = "done"
    /\ SchemaTables = Tables
    /\ Run.dbAtStart = EmptyMap
    /\ DOMAIN db = Tables
    /\ allExpectedColumns = EmptyMap

\* C3: in InitSchema with dbExists = true, a table of the schema map without
\* an expected-columns entry is skipped: validateSchema is not called for it,
\* the call never aborts at it, and the loop goes on to every other table.
C3_SkipWithoutExpected ==
    (InRun /\ Run.dbExists) =>
        /\ skipped \subseteq NoExpected
        /\ validated \cap NoExpected = {}
        /\ failedAt \notin NoExpected
        /\ last.called => last.table \notin NoExpected
        /\ skipped \cup validated = Processed
        /\ Run.outcome = "done" =>
              /\ skipped = NoExpected
              /\ validated = SchemaTables \ NoExpected

C3_Witness ==
    /\ InRun /\ Run.dbExists /\ Run.outcome = "done"
    /\ \E t \in skipped : t \notin DOMAIN db
    /\ validated # {}

\* C4: in InitSchema with dbExists = true, an error returned by validateSchema
\* aborts the call at that table and nothing runs afterwards; the call
\* completes only if every table with an expected-columns entry validated.
C4_ValidationFailureIsFatal ==
    (InRun /\ Run.dbExists) =>
        /\ (last.called /\ last.err # NoErr) =>
              /\ pc = "fatal"
              /\ Run.outcome = "fatal"
              /\ failedAt = last.table
              /\ ~ENABLED NextFault
        /\ Run.outcome = "done" =>
              \A t \in SchemaTables \cap DOMAIN allExpectedColumns :
                  /\ t \in validated
                  /\ \A o \in Orders(DOMAIN allExpectedColumns[t]) :
                        validateSchema(db, t, allExpectedColumns[t], o, NoFault).err
                            = NoErr

C4_Witness ==
    /\ InRun /\ Run.dbExists
    /\ pc = "fatal"
    /\ last.err = ErrUnexpectedType("id", "TEXT", "INTEGER")
    /\ validated # {}

\* C7: when a creation statement fails, InitSchema stops there: no statement
\* of a table not yet visited is executed, the tables created by earlier
\* iterations and those the file held before are all still there, and the
\* tables created are a strict subset of the schema map's.
C7_NoRollback ==
    (InRun /\ ~Run.dbExists /\ Run.outcome = "fatal") =>
        /\ pc = "fatal"
        /\ ~ENABLED NextFault
        /\ failedAt \in remaining
        /\ \A t \in remaining \ {failedAt} : executed[t] = 0
        /\ \A t \in Processed :
              executed[t] = 1 /\ t \in DOMAIN db /\ db[t] = tableSchemas[t].cols
        /\ Processed # SchemaTables
        /\ DOMAIN db = DOMAIN Run.dbAtStart \cup Processed
        /\ \A t \in DOMAIN Run.dbAtStart : db[t] = Run.dbAtStart[t]

C7_Witness ==
    /\ InRun /\ ~Run.dbExists /\ Run.outcome = "fatal"
    /\ Run.dbAtStart = EmptyMap
    /\ SchemaTables = Tables
    /\ DOMAIN db = {"posts"}

\* C8: with expected columns equal to the columns each statement declares,
\* InitSchema with dbExists = false on an empty database followed by
\* InitSchema with dbExists = true validates every table and leaves the
\* tables and their columns as they were.
Aligned ==
    \A t \in SchemaTables :
        /\ t \in DOMAIN allExpectedColumns
        /\ allExpectedColumns[t] = tableSchemas[t].cols
RoundTrip ==
    /\ Len(runs) = 2
    /\ ~runs[1].dbExists
    /\ runs[1].dbAtStart = EmptyMap
    /\ runs[1].outcome = "done"
    /\ runs[2].dbExists
C8_RoundTrip ==
    (Aligned /\ RoundTrip) =>
        /\ runs[2].outcome # "fatal"
        /\ db = runs[2].dbAtStart
        /\ skipped = {}
        /\ validated = Processed
        /\ runs[2].outcome = "done" => validated = SchemaTables

C8_Witness ==
    /\ Aligned /\ RoundTrip
    /\ runs[2].outcome = "done"
    /\ SchemaTables = Tables
    /\ validated = Tables

\* C10 as claimed: on a path without a file, InitDB, then IsDBExists, then
\* InitSchema with the probe's result runs in create mode and ends with
\* every table of the schema map in the database.
C10_OpenerThenProbe ==
    (fresh /\ probedAfterOpen /\ InRun /\ runs[1].dbExists = (probed = "yes")) =>
        /\ ~runs[1].dbExists
        /\ (Len(runs) = 1 /\ Run.outcome = "done") => SchemaTables \subseteq DOMAIN db

\* C10 amended: on a path without a file the probe reports "does not exist"
\* exactly when it runs before InitDB (InitDB creates the file); with that
\* result InitSchema runs in create mode, never aborts and ends with every
\* table of the schema map in the database.
C10_ProbeBeforeOpener ==
    fresh =>
        /\ probed # "none" => ((probed = "no") <=> ~probedAfterOpen)
        /\ (probed = "no" /\ InRun /\ runs[1].dbExists = (probed = "yes")) =>
              /\ ~runs[1].dbExists
              /\ runs[1].outcome # "fatal"
              /\ (Len(runs) = 1 /\ Run.outcome = "done") =>
                    SchemaTables \subseteq DOMAIN db

C10_Witness ==
    /\ fresh /\ probed = "no" /\ ~probedAfterOpen
    /\ Len(runs) = 1 /\ ~Run.dbExists /\ Run.outcome = "done"
    /\ SchemaTables = Tables
    /\ DOMAIN db = Tables

\* The columns of the table the last validateSchema call was about.
LastTableExists == last.table \in DOMAIN db
LastCols == db[last.table]
\* Expected columns the table lacks, and those it has with another type.
LastAbsent == {c \in DOMAIN last.expected : c \notin DOMAIN LastCols}
LastMismatched ==
    {c \in DOMAIN last.expected :
        c \in DOMAIN LastCols /\ LastCols[c] # last.expected[c]}
\* m has every column of cols, with the same type, and possibly more.
Extends(m, cols) ==
    /\ DOMAIN cols \subseteq DOMAIN m
    /\ \A c \in DOMAIN cols : m[c] = cols[c]

\* C2: validateSchema returns nil exactly when the table exists and every
\* expected (column, type) pair is a column of the table with that very type
\* string; a success stays a success when the table gets more columns.
C2_NilIffAllExpectedMatch ==
    last.called =>
        /\ last.err = NoErr <=>
              /\ LastTableExists
              /\ \A c \in DOMAIN last.expected :
                    c \in DOMAIN LastCols /\ LastCols[c] = last.expected[c]
        /\ (LastTableExists /\ last.err = NoErr) =>
              \A m \in TableCols(ValidateCols) :
                  Extends(m, LastCols) =>
                      \A o \in Orders(DOMAIN last.expected) :
                          validateSchema([db EXCEPT ![last.table] = m], last.table,
                                         last.expected, o, NoFault).err = NoErr

C2_Witness ==
    /\ last.called /\ last.err = NoErr
    /\ DOMAIN last.expected = {"id"}
    /\ DOMAIN LastCols = {"id", "name"}

\* C5 as claimed: when the expected columns name a column the table lacks,
\* validateSchema returns the missing-column error for an absent column.
C5_AlwaysMissingColumn ==
    (last.called /\ LastTableExists /\ LastAbsent # {}) =>
        last.err \in {ErrMissingColumn(c) : c \in LastAbsent}

\* C5 amended: when the expected columns name a column the table lacks,
\* validateSchema fails, with the missing-column error for an absent column
\* or the type error for a column of another type, whichever the iteration
\* meets first; it is the missing-column error when no type differs.
C5_MissingOrMismatch ==
    (last.called /\ LastTableExists /\ LastAbsent # {}) =>
        /\ last.err # NoErr
        /\ last.err \in
              {ErrMissingColumn(c) : c \in LastAbsent} \cup
              {ErrUnexpectedType(c, last.expected[c], LastCols[c]) : c \in LastMismatched}
        /\ LET first == CHOOSE i \in DOMAIN last.order :
                            /\ last.order[i] \in LastAbsent \cup LastMismatched
                            /\ \A j \in 1..(i - 1) :
                                  last.order[j] \notin LastAbsent \cup LastMismatched
           IN (last.order[first] \in LastAbsent) <=>
                  (last.err = ErrMissingColumn(last.order[first]))
        /\ LastMismatched = {} =>
              last.err \in {ErrMissingColumn(c) : c \in LastAbsent}

C5_Witness ==
    /\ last.called /\ LastTableExists
    /\ LastAbsent = {"name"}
    /\ LastMismatched = {"id"}
    /\ last.err = ErrMissingColumn("name")

\* C6: validateSchema for a name that is not a table returns the
\* table-missing error naming it, whatever the expected columns, without
\* opening an introspection cursor or reading a column.
C6_TableMissingFirst ==
    (last.called /\ ~LastTableExists) =>
        /\ last.err = ErrTableMissing(last.table)
        /\ last.opened = 0
        /\ last.found = EmptyMap

C6_Witness ==
    /\ last.called /\ ~LastTableExists
    /\ last.expected = EmptyMap
    /\ DOMAIN db = {"users"}
    /\ last.err = ErrTableMissing("posts")

\* C9: when validateSchema has returned, no cursor is open: the cursor is
\* opened only when the catalog query and the PRAGMA query both succeed for
\* an existing table, it is then closed on every path, and a failing
\* rows.Close leaves the returned error as it was.
C9_CursorClosed ==
    last.called =>
        /\ openCursors = 0
        /\ last.closed = last.opened
        /\ last.opened =
              IF ~last.flt.get /\ LastTableExists /\ ~last.flt.query THEN 1 ELSE 0
        /\ last.logged = (last.opened = 1 /\ last.flt.close)
        /\ last.err = validateSchema(db, last.table, last.expected, last.order,
                                     [last.flt EXCEPT !.close = FALSE]).err

C9_Witness ==
    /\ last.called
    /\ last.err = ErrScan
    /\ last.flt.close
    /\ last.opened = 1 /\ last.closed = 1
    /\ DOMAIN last.found = {"id"}

====
